---- MODULE Spec2Model ----
(***************************************************************************)
(* State-machine model of the FFmpeg decode bridge of the MD host          *)
(* (src/Plugins/FFmpeg/plugin.cpp, plugin.h): the plugin's container       *)
(* registry, the two open paths (_Container::Decode and                    *)
(* Plugin::_LoadContainer), content enumeration (_Context::Initialize),    *)
(* the frame loop (_Context::NextFrame) and teardown (~_Context and        *)
(* !_Context).                                                             *)
(*                                                                         *)
(* The native library (libavformat / libavcodec) and the byte stream are   *)
(* the environment.  `heap` holds the native allocations that are live,    *)
(* `log` the calls that finish the stream or release the bridge, the       *)
(* demuxer or a field of the context, in program order; native reads and   *)
(* decodes are counted.                                                    *)
(***************************************************************************)
EXTENDS Integers, Sequences, FiniteSets, TLC

\* ------------------------------------------------------------------ bounds
MaxStreams == 2       \* elementary streams per container
MaxPackets == 3       \* packets the demuxer delivers before exhaustion
MaxCalls == 3         \* NextFrame calls per context
MaxDispose == 2       \* sequential teardown invocations per context

\* ------------------------------------------------------- program constants
AVCODEC_MAX_AUDIO_FRAME_SIZE == 192000

NULL == "NULL"
Sentinel == -1

\* ---------------------------------------------------------------- helpers
RECURSIVE Count(_, _)
Count(e, s) ==
    IF s = <<>> THEN 0
    ELSE (IF Head(s) = e THEN 1 ELSE 0) + Count(e, Tail(s))

\* Position of the first occurrence of e in s, 0 when absent.
RECURSIVE IndexFrom(_, _, _)
IndexFrom(e, s, i) ==
    IF i > Len(s) THEN 0
    ELSE IF s[i] = e THEN i
    ELSE IndexFrom(e, s, i + 1)

IndexOf(e, s) == IndexFrom(e, s, 1)

\* ------------------------------------------------- the library's registry
\* Formats in av_iformat_next / av_oformat_next order.  Two demuxers share
\* a name, and one muxer has no demuxer of its name.
InputFormats ==
    << [id |-> "demux_mpeg1", name |-> "mpeg"],
       [id |-> "demux_mpeg2", name |-> "mpeg"] >>

OutputFormats ==
    << [id |-> "mux_mpeg", name |-> "mpeg"],
       [id |-> "mux_mp4", name |-> "mp4"] >>

InputFormatIds == {InputFormats[i].id : i \in 1..Len(InputFormats)}

\* The native description of one elementary stream: whether
\* avcodec_find_decoder finds a decoder, whether avcodec_open succeeds, and
\* codec_type.
StreamKinds ==
    { [codec |-> FALSE, opens |-> FALSE, codec_type |-> "AUDIO"],
      [codec |-> TRUE,  opens |-> FALSE, codec_type |-> "AUDIO"],
      [codec |-> TRUE,  opens |-> TRUE,  codec_type |-> "VIDEO"],
      [codec |-> TRUE,  opens |-> TRUE,  codec_type |-> "AUDIO"] }

StreamConfigs == UNION {[1..n -> StreamKinds] : n \in 0..MaxStreams}

\* What avcodec_decode_audio3 may store in framesize on success: it is given
\* the capacity as its bound and produces at most that many bytes.
FrameSizes(capacity) == {0, capacity}

VARIABLES
    Initialized,     \* Plugin::Initialized
    _Containers,     \* Plugin::_Containers, in insertion order; <<>> is nullptr
    result,          \* what the open call returned, or that it threw
    streams,         \* FormatContext->streams of the opened demuxer
    delivered,       \* packets av_read_frame has delivered
    demuxEnd,        \* av_read_frame has reported exhaustion or a read error
    openDecoders,    \* native stream indices whose decoder avcodec_open opened
    _StreamContent,  \* _Context::_StreamContent
    Content,         \* Context::Content, the content descriptors
    _BufferSize,     \* _Context::_BufferSize
    _Packet,         \* _Context::_Packet: NULL, "blank" or "data"
    _Disposed,       \* _Context::_Disposed
    ContentIndex,    \* the caller's int% ContentIndex
    pcNextFrame,     \* position of the NextFrame call: "idle" or "read"
    results,         \* the values NextFrame returned, in call order
    lastPacket,      \* what the loop did with the packet delivered last
    reads,           \* av_read_frame calls
    decodes,         \* avcodec_decode_audio3 calls
    fails,           \* avcodec_decode_audio3 calls that returned < 0
    leaked,          \* packet payloads overwritten without av_free_packet
    disposeCalls,    \* completed teardown invocations
    pc,              \* position of each racing teardown thread
    heap,            \* the live native allocations
    log              \* the finish and release calls made, in program order

vars ==
    << Initialized, _Containers, result, streams, delivered, demuxEnd, openDecoders,
       _StreamContent, Content, _BufferSize, _Packet, _Disposed, ContentIndex,
       pcNextFrame, results, lastPacket, reads, decodes, fails, leaked,
       disposeCalls, pc, heap, log >>

Threads == {"close", "finalizer"}


\* ----------------------------------------------------------- Plugin::Load
Container(name) == [Name |-> name, Input |-> NULL, Output |-> NULL]

\* Dictionary lookup: the position of the entry whose key is name, 0 if none.
RECURSIVE DictIndexFrom(_, _, _)
DictIndexFrom(dict, name, i) ==
    IF i > Len(dict) THEN 0
    ELSE IF dict[i].Name = name THEN i
    ELSE DictIndexFrom(dict, name, i + 1)

DictIndex(dict, name) == DictIndexFrom(dict, name, 1)

\* _Containers[name] = container, for every input format in turn.
RECURSIVE AddInputFormats(_, _, _)
AddInputFormats(dict, fmts, i) ==
    IF i > Len(fmts) THEN dict
    ELSE LET container == [Container(fmts[i].name) EXCEPT !.Input = fmts[i].id]
             k == DictIndex(dict, fmts[i].name)
         IN  AddInputFormats(
                 IF k = 0 THEN Append(dict, container)
                          ELSE [dict EXCEPT ![k] = container],
                 fmts, i + 1)

\* TryGetValue, else Add; then container->Output = oformat.
RECURSIVE AddOutputFormats(_, _, _)
AddOutputFormats(dict, fmts, i) ==
    IF i > Len(fmts) THEN dict
    ELSE LET k == DictIndex(dict, fmts[i].name)
         IN  AddOutputFormats(
                 IF k = 0
                 THEN Append(dict, [Container(fmts[i].name) EXCEPT !.Output = fmts[i].id])
                 ELSE [dict EXCEPT ![k].Output = fmts[i].id],
                 fmts, i + 1)

CreateContainers ==
    AddOutputFormats(AddInputFormats(<<>>, InputFormats, 1), OutputFormats, 1)

\* ------------------------------------------------------ the stream bridge
\* The native side as the operations below transform it: n.heap and n.log.
Native(h, lg) == [heap |-> h, log |-> lg]

Alloc(n, r) == Native(n.heap \cup {r}, n.log)

Free(n, r, call) == Native(n.heap \ {r}, Append(n.log, call))

\* new gcroot<ExclusiveByteStream^>(Context); avio_alloc_context(...)
InitStreamContext(n) == Alloc(Alloc(n, "stream"), "io")

\* (*stream)->Finish(); delete stream; av_free(Context);
CloseStreamContext(n) ==
    Free(Free(Native(n.heap, Append(n.log, "Finish")), "stream", "delete stream"),
         "io", "av_free(io)")

\* ------------------------------------------------- _Context::Initialize
\* FSharpOption<Data<Byte>>: None, or Some(UnsafeData(start, end)) with the
\* two pointers as offsets from _Buffer.
None == [some |-> FALSE, start |-> 0, end |-> 0]

Some(start, end) == [some |-> TRUE, start |-> start, end |-> end]

AudioContent(t) == [kind |-> "Audio", stream |-> t, Ignore |-> FALSE, Data |-> None]

\* InitializeLoop without the switch on codec_type: every stream whose
\* decoder opened gets a content descriptor.
RECURSIVE InitializeLoop_NoKindSwitch(_, _, _, _, _)
InitializeLoop_NoKindSwitch(strs, t, streamcontent, contents, decoders) ==
    IF t >= Len(strs) THEN
        [streamcontent |-> streamcontent, contents |-> contents, decoders |-> decoders]
    ELSE
        LET s == strs[t + 1]
            opened == s.codec /\ s.opens
        IN  InitializeLoop_NoKindSwitch(
                strs, t + 1,
                Append(streamcontent, IF opened THEN Len(contents) ELSE Sentinel),
                IF opened THEN Append(contents, AudioContent(t)) ELSE contents,
                IF opened THEN decoders \cup {t} ELSE decoders)

\* InitializeLoop recording the native stream index t, not contents->Count,
\* in the map.
RECURSIVE InitializeLoop_RecordsStreamIndex(_, _, _, _, _)
InitializeLoop_RecordsStreamIndex(strs, t, streamcontent, contents, decoders) ==
    IF t >= Len(strs) THEN
        [streamcontent |-> streamcontent, contents |-> contents, decoders |-> decoders]
    ELSE
        LET s == strs[t + 1]
            opened == s.codec /\ s.opens
            audio == opened /\ s.codec_type = "AUDIO"
        IN  InitializeLoop_RecordsStreamIndex(
                strs, t + 1,
                Append(streamcontent, IF audio THEN t ELSE Sentinel),
                IF audio THEN Append(contents, AudioContent(t)) ELSE contents,
                IF opened THEN decoders \cup {t} ELSE decoders)

\* One pass of the enumeration loop over native stream t (0-based); strs is
\* FormatContext->streams, streamcontent and contents are the loop's
\* locals, decoders the decoders avcodec_open has opened.
RECURSIVE InitializeLoop(_, _, _, _, _)
InitializeLoop(strs, t, streamcontent, contents, decoders) ==
    IF t >= Len(strs) THEN
        [streamcontent |-> streamcontent, contents |-> contents, decoders |-> decoders]
    ELSE
        LET s == strs[t + 1]
            opened == s.codec /\ s.opens
            audio == opened /\ s.codec_type = "AUDIO"
        IN  InitializeLoop(
                strs, t + 1,
                Append(streamcontent, IF audio THEN Len(contents) ELSE Sentinel),
                IF audio THEN Append(contents, AudioContent(t)) ELSE contents,
                IF opened THEN decoders \cup {t} ELSE decoders)

\* Max returning the smaller of the two.
Max_Smaller(a, b) == IF a >= b THEN b ELSE a

Max(a, b) == IF a >= b THEN a ELSE b

\* The fields of the context Initialize returns.
Initialize(strs) ==
    LET loop == InitializeLoop(strs, 0, <<>>, <<>>, {})
        buffersize == Max(0, AVCODEC_MAX_AUDIO_FRAME_SIZE)
    IN  [ _StreamContent |-> loop.streamcontent,
          Content |-> loop.contents,
          _BufferSize |-> buffersize,
          decoders |-> loop.decoders ]

\* Where an allocation in Initialize can fail and throw: new int[nb_streams]
\* before the loop, or gcnew _Context after it; "none" when none does.
ThrowPoints == {"none", "streamcontent", "context"}

\* Initialize leaving by an exception thrown at `at`: the native side and
\* the opened decoders it leaves behind.  Nothing catches the exception, in
\* Initialize or in the two open functions that call it.
InitializeThrows(strs, at, n) ==
    IF at = "streamcontent" THEN
        [native |-> n, decoders |-> {}]
    ELSE
        [native |-> Alloc(n, "_StreamContent"),
         decoders |-> InitializeLoop(strs, 0, <<>>, <<>>, {}).decoders]

\* ----------------------------------------------------- _Container::Decode
\* What Decode does before it hands over to Initialize: whether it goes on
\* to return Some, and the native side it leaves.  Input is the container's
\* input format; openErr and infoErr are the results of
\* av_open_input_stream and av_find_stream_info; n is the native side at
\* the call.
Decode(Input, openErr, infoErr, n) ==
    IF Input = NULL THEN
        [some |-> FALSE, native |-> n]
    ELSE
        LET io == InitStreamContext(n)
        IN  IF openErr # 0 THEN
                [some |-> FALSE, native |-> CloseStreamContext(io)]
            ELSE
                LET formatcontext == Alloc(io, "demuxer")
                IN  IF infoErr < 0 THEN
                        [some |-> FALSE,
                         native |-> CloseStreamContext(
                             Free(formatcontext, "demuxer", "av_close_input_stream"))]
                    ELSE
                        [some |-> TRUE, native |-> formatcontext]

\* --------------------------------------------------- Plugin::_LoadContainer
\* The first registered container whose Input is iformat, or nullptr.
RECURSIVE FindContainer(_, _, _)
FindContainer(dict, iformat, i) ==
    IF i > Len(dict) THEN "nullptr"
    ELSE IF dict[i].Input = iformat THEN dict[i].Name
    ELSE FindContainer(dict, iformat, i + 1)

\* hasFilename: Filename != nullptr; iformat: the format av_probe_input_buffer
\* detected, NULL when it returned an error.
LoadContainer(dict, hasFilename, iformat, openErr, infoErr, n) ==
    LET io == InitStreamContext(n)
        probed == IF hasFilename THEN Alloc(io, "filename") ELSE io
    IN  IF iformat = NULL THEN
            [some |-> FALSE, container |-> "nullptr", native |-> CloseStreamContext(probed)]
        ELSE
            LET freed == IF hasFilename
                         THEN Native(probed.heap \ {"filename"}, probed.log)
                         ELSE probed
            IN  IF openErr # 0 THEN
                    [some |-> FALSE, container |-> "nullptr",
                     native |-> CloseStreamContext(freed)]
                ELSE
                    LET formatcontext == Alloc(freed, "demuxer")
                    IN  IF infoErr < 0 THEN
                            [some |-> FALSE, container |-> "nullptr",
                             native |-> CloseStreamContext(
                                 Free(formatcontext, "demuxer", "av_close_input_stream"))]
                        ELSE
                            [some |-> TRUE,
                             container |-> FindContainer(dict, iformat, 1),
                             native |-> formatcontext]

\* ------------------------------------------------------ _Context::!_Context
\* ReleaseBody without the call of CloseStreamContext.
ReleaseBody_NoClose(packet, n) ==
    LET fields == Free(Free(n, "_StreamContent", "delete[] _StreamContent"),
                       "_Buffer", "av_free(_Buffer)")
    IN  IF packet # NULL
        THEN Free(Native(fields.heap, Append(fields.log, "av_free_packet")),
                  "_Packet", "delete _Packet")
        ELSE fields

\* The body the _Disposed flag gates; packet is this->_Packet.
ReleaseBody(packet, n) ==
    LET closed == CloseStreamContext(n)
        fields == Free(Free(closed, "_StreamContent", "delete[] _StreamContent"),
                       "_Buffer", "av_free(_Buffer)")
    IN  IF packet # NULL
        THEN Free(Native(fields.heap, Append(fields.log, "av_free_packet")),
                  "_Packet", "delete _Packet")
        ELSE fields

\* Finalizer without the assignment this->_Disposed = true.
Finalizer_FlagNotSet(disposed, packet, n) ==
    IF ~disposed
    THEN [_Disposed |-> disposed, native |-> ReleaseBody(packet, n)]
    ELSE [_Disposed |-> disposed, native |-> n]

\* One whole, uninterrupted run of !_Context.
Finalizer(disposed, packet, n) ==
    IF ~disposed
    THEN [_Disposed |-> TRUE, native |-> ReleaseBody(packet, n)]
    ELSE [_Disposed |-> disposed, native |-> n]

\* ------------------------------------------------------ _Context::NextFrame
\* The statements before the loop: what this->_Packet is afterwards.
NextFramePacket(packet) ==
    IF packet = NULL THEN "blank"     \* new AVPacket()
    ELSE "blank"                      \* av_free_packet(this->_Packet)

\* LoopBody returning true for a packet of an unmapped stream.
LoopBody_NoSentinelTest(pkt, streamcontent, content, framesize) ==
    LET streamindex == pkt.stream_index
        index == streamcontent[streamindex + 1]
    IN  IF index # Sentinel THEN
            IF ~content[index + 1].Ignore THEN
                IF content[index + 1].kind = "Audio" THEN
                    IF pkt.decodes THEN
                        [ret |-> "true", ContentIndex |-> index, decoded |-> TRUE,
                         did |-> "frame",
                         Content |-> [content EXCEPT ![index + 1].Data =
                                         Some(0, 0 + framesize)]]
                    ELSE
                        [ret |-> "continue", ContentIndex |-> index, decoded |-> TRUE,
                         did |-> "fail", Content |-> content]
                ELSE
                    [ret |-> "continue", ContentIndex |-> index, decoded |-> FALSE,
                     did |-> "skip", Content |-> content]
            ELSE
                [ret |-> "true", ContentIndex |-> index, decoded |-> FALSE,
                 did |-> "ignored", Content |-> content]
        ELSE
            [ret |-> "true", ContentIndex |-> index, decoded |-> FALSE,
             did |-> "skip", Content |-> content]

\* LoopBody returning true although avcodec_decode_audio3 returned < 0.
LoopBody_FailureReturns(pkt, streamcontent, content, framesize) ==
    LET streamindex == pkt.stream_index
        index == streamcontent[streamindex + 1]
    IN  IF index # Sentinel THEN
            IF ~content[index + 1].Ignore THEN
                IF content[index + 1].kind = "Audio" THEN
                    IF pkt.decodes THEN
                        [ret |-> "true", ContentIndex |-> index, decoded |-> TRUE,
                         did |-> "frame",
                         Content |-> [content EXCEPT ![index + 1].Data =
                                         Some(0, 0 + framesize)]]
                    ELSE
                        [ret |-> "true", ContentIndex |-> index, decoded |-> TRUE,
                         did |-> "fail", Content |-> content]
                ELSE
                    [ret |-> "continue", ContentIndex |-> index, decoded |-> FALSE,
                     did |-> "skip", Content |-> content]
            ELSE
                [ret |-> "true", ContentIndex |-> index, decoded |-> FALSE,
                 did |-> "ignored", Content |-> content]
        ELSE
            [ret |-> "continue", ContentIndex |-> index, decoded |-> FALSE,
             did |-> "skip", Content |-> content]

\* LoopBody decoding without the test of content->Ignore.
LoopBody_IgnoreNotTested(pkt, streamcontent, content, framesize) ==
    LET streamindex == pkt.stream_index
        index == streamcontent[streamindex + 1]
    IN  IF index # Sentinel THEN
            IF TRUE \/ ~content[index + 1].Ignore THEN
                IF content[index + 1].kind = "Audio" THEN
                    IF pkt.decodes THEN
                        [ret |-> "true", ContentIndex |-> index, decoded |-> TRUE,
                         did |-> "frame",
                         Content |-> [content EXCEPT ![index + 1].Data =
                                         Some(0, 0 + framesize)]]
                    ELSE
                        [ret |-> "continue", ContentIndex |-> index, decoded |-> TRUE,
                         did |-> "fail", Content |-> content]
                ELSE
                    [ret |-> "continue", ContentIndex |-> index, decoded |-> FALSE,
                     did |-> "skip", Content |-> content]
            ELSE
                [ret |-> "true", ContentIndex |-> index, decoded |-> FALSE,
                 did |-> "ignored", Content |-> content]
        ELSE
            [ret |-> "continue", ContentIndex |-> index, decoded |-> FALSE,
             did |-> "skip", Content |-> content]

\* LoopBody clearing the Data of every other descriptor when it stores a
\* decoded frame.
LoopBody_ClearsOtherData(pkt, streamcontent, content, framesize) ==
    LET streamindex == pkt.stream_index
        index == streamcontent[streamindex + 1]
    IN  IF index # Sentinel THEN
            IF ~content[index + 1].Ignore THEN
                IF content[index + 1].kind = "Audio" THEN
                    IF pkt.decodes THEN
                        [ret |-> "true", ContentIndex |-> index, decoded |-> TRUE,
                         did |-> "frame",
                         Content |-> [i \in 1..Len(content) |->
                                         [content[i] EXCEPT !.Data =
                                             IF i = index + 1
                                             THEN Some(0, 0 + framesize)
                                             ELSE None]]]
                    ELSE
                        [ret |-> "continue", ContentIndex |-> index, decoded |-> TRUE,
                         did |-> "fail", Content |-> content]
                ELSE
                    [ret |-> "continue", ContentIndex |-> index, decoded |-> FALSE,
                     did |-> "skip", Content |-> content]
            ELSE
                [ret |-> "true", ContentIndex |-> index, decoded |-> FALSE,
                 did |-> "ignored", Content |-> content]
        ELSE
            [ret |-> "continue", ContentIndex |-> index, decoded |-> FALSE,
             did |-> "skip", Content |-> content]

\* LoopBody storing a range one byte longer than the decoder produced.
LoopBody_RangeOneTooLong(pkt, streamcontent, content, framesize) ==
    LET streamindex == pkt.stream_index
        index == streamcontent[streamindex + 1]
    IN  IF index # Sentinel THEN
            IF ~content[index + 1].Ignore THEN
                IF content[index + 1].kind = "Audio" THEN
                    IF pkt.decodes THEN
                        [ret |-> "true", ContentIndex |-> index, decoded |-> TRUE,
                         did |-> "frame",
                         Content |-> [content EXCEPT ![index + 1].Data =
                                         Some(0, 0 + framesize + 1)]]
                    ELSE
                        [ret |-> "continue", ContentIndex |-> index, decoded |-> TRUE,
                         did |-> "fail", Content |-> content]
                ELSE
                    [ret |-> "continue", ContentIndex |-> index, decoded |-> FALSE,
                     did |-> "skip", Content |-> content]
            ELSE
                [ret |-> "true", ContentIndex |-> index, decoded |-> FALSE,
                 did |-> "ignored", Content |-> content]
        ELSE
            [ret |-> "continue", ContentIndex |-> index, decoded |-> FALSE,
             did |-> "skip", Content |-> content]

\* LoopBody storing a Data reference for an ignored slot too.
LoopBody_IgnoredSetsData(pkt, streamcontent, content, framesize) ==
    LET streamindex == pkt.stream_index
        index == streamcontent[streamindex + 1]
    IN  IF index # Sentinel THEN
            IF ~content[index + 1].Ignore THEN
                IF content[index + 1].kind = "Audio" THEN
                    IF pkt.decodes THEN
                        [ret |-> "true", ContentIndex |-> index, decoded |-> TRUE,
                         did |-> "frame",
                         Content |-> [content EXCEPT ![index + 1].Data =
                                         Some(0, 0 + framesize)]]
                    ELSE
                        [ret |-> "continue", ContentIndex |-> index, decoded |-> TRUE,
                         did |-> "fail", Content |-> content]
                ELSE
                    [ret |-> "continue", ContentIndex |-> index, decoded |-> FALSE,
                     did |-> "skip", Content |-> content]
            ELSE
                [ret |-> "true", ContentIndex |-> index, decoded |-> FALSE,
                 did |-> "ignored",
                 Content |-> [content EXCEPT ![index + 1].Data = Some(0, 0 + framesize)]]
        ELSE
            [ret |-> "continue", ContentIndex |-> index, decoded |-> FALSE,
             did |-> "skip", Content |-> content]

\* The loop body for the packet av_read_frame has just stored.  pkt is that
\* packet (its stream_index, and whether avcodec_decode_audio3 accepts it),
\* framesize what the decoder stores in framesize on success.  ret is "true"
\* (return true) or "continue" (next evaluation of the loop condition).
LoopBody(pkt, streamcontent, content, framesize) ==
    LET streamindex == pkt.stream_index
        index == streamcontent[streamindex + 1]
    IN  IF index # Sentinel THEN
            IF ~content[index + 1].Ignore THEN
                IF content[index + 1].kind = "Audio" THEN
                    IF pkt.decodes THEN
                        [ret |-> "true", ContentIndex |-> index, decoded |-> TRUE,
                         did |-> "frame",
                         Content |-> [content EXCEPT ![index + 1].Data =
                                         Some(0, 0 + framesize)]]
                    ELSE
                        [ret |-> "continue", ContentIndex |-> index, decoded |-> TRUE,
                         did |-> "fail", Content |-> content]
                ELSE
                    [ret |-> "continue", ContentIndex |-> index, decoded |-> FALSE,
                     did |-> "skip", Content |-> content]
            ELSE
                [ret |-> "true", ContentIndex |-> index, decoded |-> FALSE,
                 did |-> "ignored", Content |-> content]
        ELSE
            [ret |-> "continue", ContentIndex |-> index, decoded |-> FALSE,
             did |-> "skip", Content |-> content]

\* The packets the demuxer can deliver: one of the opened streams each.
Packets == [stream_index : 0..(Len(streams) - 1), decodes : BOOLEAN]


\* ------------------------------------------------------------------ state
Init ==
    /\ Initialized = FALSE
    /\ _Containers = <<>>
    /\ result = [call |-> "none", some |-> FALSE, container |-> "nullptr",
                 threw |-> FALSE]
    /\ streams = <<>>
    /\ delivered = 0
    /\ demuxEnd = FALSE
    /\ openDecoders = {}
    /\ _StreamContent = <<>>
    /\ Content = <<>>
    /\ _BufferSize = 0
    /\ _Packet = NULL
    /\ _Disposed = FALSE
    /\ ContentIndex = 0
    /\ pcNextFrame = "idle"
    /\ results = <<>>
    /\ lastPacket = "none"
    /\ reads = 0
    /\ decodes = 0
    /\ fails = 0
    /\ leaked = 0
    /\ disposeCalls = 0
    /\ pc = [t \in Threads |-> "idle"]
    /\ heap = {}
    /\ log = <<>>

pluginVars == << Initialized, _Containers >>
frameVars ==
    << ContentIndex, pcNextFrame, results, lastPacket, reads, decodes, fails, leaked >>
demuxVars == << streams, delivered, demuxEnd, openDecoders >>
contextVars == << _StreamContent, Content, _BufferSize, _Packet, _Disposed >>

\* A context is open and no teardown has begun: the caller may use it.
Usable ==
    /\ result.some
    /\ ~_Disposed
    /\ disposeCalls = 0
    /\ \A t \in Threads : pc[t] = "idle"
    /\ pcNextFrame = "idle"

\* Plugin::Load, the first call (a later call only registers again).
Load ==
    /\ ~Initialized
    /\ Initialized' = TRUE
    /\ _Containers' = CreateContainers
    /\ UNCHANGED << result, demuxVars, contextVars, frameVars, disposeCalls, pc, heap, log >>

\* The context Initialize builds from the opened demuxer's streams.
Opened(strs) ==
    LET context == Initialize(strs)
    IN  /\ streams' = strs
        /\ delivered' = 0
        /\ demuxEnd' = FALSE
        /\ openDecoders' = context.decoders
        /\ _StreamContent' = context._StreamContent
        /\ Content' = context.Content
        /\ _BufferSize' = context._BufferSize
        /\ _Packet' = NULL
        /\ _Disposed' = FALSE

\* new int[nb_streams] and av_malloc(buffersize) in Initialize.
InitializeAllocs(n) == Alloc(Alloc(n, "_StreamContent"), "_Buffer")

\* The open call reached Initialize with the native side n and the demuxer's
\* streams strs: Initialize returns the context, or throws at `at` and the
\* open call leaves by that exception.
InitializeCall(call, container, strs, at, n) ==
    IF at = "none" THEN
        LET m == InitializeAllocs(n)
        IN  /\ result' = [call |-> call, some |-> TRUE, container |-> container,
                          threw |-> FALSE]
            /\ heap' = m.heap
            /\ log' = m.log
            /\ Opened(strs)
    ELSE
        LET x == InitializeThrows(strs, at, n)
        IN  /\ result' = [call |-> call, some |-> FALSE, container |-> "nullptr",
                          threw |-> TRUE]
            /\ heap' = x.native.heap
            /\ log' = x.native.log
            /\ streams' = strs
            /\ openDecoders' = x.decoders
            /\ UNCHANGED << delivered, demuxEnd, contextVars >>

\* The host calls Decode on a registered container.
DecodeCall ==
    /\ Initialized
    /\ result.call = "none"
    /\ \E c \in 1..Len(_Containers), openErr \in {0, -1}, infoErr \in {0, -1} :
          LET d == Decode(_Containers[c].Input, openErr, infoErr, Native(heap, log))
          IN  IF d.some
              THEN \E strs \in StreamConfigs, at \in ThrowPoints :
                      InitializeCall("Decode", "nullptr", strs, at, d.native)
              ELSE /\ result' = [call |-> "Decode", some |-> FALSE,
                                 container |-> "nullptr", threw |-> FALSE]
                   /\ heap' = d.native.heap
                   /\ log' = d.native.log
                   /\ UNCHANGED << demuxVars, contextVars >>
    /\ UNCHANGED << pluginVars, frameVars, disposeCalls, pc >>

\* The host calls the registered load action, _LoadContainer.
LoadContainerCall ==
    /\ Initialized
    /\ result.call = "none"
    /\ \E hasFilename \in BOOLEAN, iformat \in InputFormatIds \cup {NULL},
          openErr \in {0, -1}, infoErr \in {0, -1} :
          LET d == LoadContainer(_Containers, hasFilename, iformat, openErr, infoErr,
                                 Native(heap, log))
          IN  IF d.some
              THEN \E strs \in StreamConfigs, at \in ThrowPoints :
                      InitializeCall("_LoadContainer", d.container, strs, at, d.native)
              ELSE /\ result' = [call |-> "_LoadContainer", some |-> FALSE,
                                 container |-> "nullptr", threw |-> FALSE]
                   /\ heap' = d.native.heap
                   /\ log' = d.native.log
                   /\ UNCHANGED << demuxVars, contextVars >>
    /\ UNCHANGED << pluginVars, frameVars, disposeCalls, pc >>

\* The host sets or clears Ignore on a content descriptor.  It chooses the
\* slots to ignore before it pulls the first frame.
SetIgnore ==
    /\ Usable
    /\ results = <<>>
    /\ \E i \in 1..Len(Content), b \in BOOLEAN :
          /\ Content[i].Ignore # b
          /\ Content' = [Content EXCEPT ![i].Ignore = b]
    /\ UNCHANGED << pluginVars, result, demuxVars, _StreamContent, _BufferSize, _Packet,
                    _Disposed, frameVars, disposeCalls, pc, heap, log >>

\* NextFrame is called: the statements before the loop.
NextFrameEnter ==
    /\ Usable
    /\ Len(results) < MaxCalls
    /\ _Packet' = NextFramePacket(_Packet)
    /\ heap' = heap \cup {"_Packet"}
    /\ pcNextFrame' = "read"
    /\ UNCHANGED << pluginVars, result, demuxVars, _StreamContent, Content, _BufferSize,
                    _Disposed, ContentIndex, results, lastPacket, reads, decodes,
                    fails, leaked, disposeCalls, pc, log >>

\* NextFrameLoop going back to the loop condition, not to return false,
\* when av_read_frame reports exhaustion.
NextFrameLoop_NoExitOnEnd ==
    /\ pcNextFrame = "read"
    /\ \/ /\ demuxEnd' = TRUE
          /\ pcNextFrame' = "read"
          /\ UNCHANGED << delivered, Content, _Packet, ContentIndex, lastPacket,
                          decodes, fails, leaked, results, reads >>
       \/ /\ ~demuxEnd
          /\ delivered < MaxPackets
          /\ reads' = reads + 1
          /\ \E pkt \in Packets, framesize \in FrameSizes(_BufferSize) :
                LET body == LoopBody(pkt, _StreamContent, Content, framesize)
                IN  /\ delivered' = delivered + 1
                    /\ demuxEnd' = demuxEnd
                    /\ leaked' = leaked + (IF _Packet = "data" THEN 1 ELSE 0)
                    /\ _Packet' = "data"
                    /\ ContentIndex' = body.ContentIndex
                    /\ Content' = body.Content
                    /\ lastPacket' = body.did
                    /\ decodes' = decodes + (IF body.decoded THEN 1 ELSE 0)
                    /\ fails' = fails + (IF body.did = "fail" THEN 1 ELSE 0)
                    /\ IF body.ret = "true"
                       THEN /\ pcNextFrame' = "idle"
                            /\ results' = Append(results, TRUE)
                       ELSE /\ pcNextFrame' = "read"
                            /\ results' = results
    /\ UNCHANGED << pluginVars, result, streams, openDecoders, _StreamContent,
                    _BufferSize, _Disposed, disposeCalls, pc, heap, log >>

\* One evaluation of the loop condition, av_read_frame, and of the loop body
\* when it delivers a packet.  The demuxer delivers at most MaxPackets
\* packets; the stream may end, or a read may fail, before that, and from
\* then on av_read_frame keeps reporting it.
NextFrameLoop ==
    /\ pcNextFrame = "read"
    /\ reads' = reads + 1
    /\ \/ \* av_read_frame < 0: return false
          /\ demuxEnd' = TRUE
          /\ pcNextFrame' = "idle"
          /\ results' = Append(results, FALSE)
          /\ UNCHANGED << delivered, Content, _Packet, ContentIndex, lastPacket,
                          decodes, fails, leaked >>
       \/ \* av_read_frame >= 0: the loop body
          /\ ~demuxEnd
          /\ delivered < MaxPackets
          /\ \E pkt \in Packets, framesize \in FrameSizes(_BufferSize) :
                LET body == LoopBody(pkt, _StreamContent, Content, framesize)
                IN  /\ delivered' = delivered + 1
                    /\ demuxEnd' = demuxEnd
                    /\ leaked' = leaked + (IF _Packet = "data" THEN 1 ELSE 0)
                    /\ _Packet' = "data"
                    /\ ContentIndex' = body.ContentIndex
                    /\ Content' = body.Content
                    /\ lastPacket' = body.did
                    /\ decodes' = decodes + (IF body.decoded THEN 1 ELSE 0)
                    /\ fails' = fails + (IF body.did = "fail" THEN 1 ELSE 0)
                    /\ IF body.ret = "true"
                       THEN /\ pcNextFrame' = "idle"
                            /\ results' = Append(results, TRUE)
                       ELSE /\ pcNextFrame' = "read"
                            /\ results' = results
    /\ UNCHANGED << pluginVars, result, streams, openDecoders, _StreamContent,
                    _BufferSize, _Disposed, disposeCalls, pc, heap, log >>

\* A whole run of the teardown, with nothing else running.
Teardown ==
    /\ result.some
    /\ pcNextFrame = "idle"
    /\ \A t \in Threads : pc[t] = "idle"
    /\ disposeCalls < MaxDispose
    /\ LET f == Finalizer(_Disposed, _Packet, Native(heap, log))
       IN  /\ _Disposed' = f._Disposed
           /\ heap' = f.native.heap
           /\ log' = f.native.log
    /\ disposeCalls' = disposeCalls + 1
    /\ UNCHANGED << pluginVars, result, demuxVars, _StreamContent, Content, _BufferSize,
                    _Packet, frameVars, pc >>

\* The explicit close: ~_Context calls !_Context.
Destructor == Teardown

\* The finalization sweep: !_Context.
FinalizerCall == Teardown

Next ==
    \/ Load
    \/ DecodeCall
    \/ LoadContainerCall
    \/ SetIgnore
    \/ NextFrameEnter
    \/ NextFrameLoop
    \/ Destructor
    \/ FinalizerCall

Spec == Init /\ [][Next]_vars

\* A NextFrame call that has started keeps running: the thread executing it
\* is scheduled and every stream read the demuxer makes returns.
SpecLive == Init /\ [][Next]_vars /\ WF_vars(NextFrameLoop)


\* ----------------------------------------------------- racing teardown
\* ~_Context and !_Context running on two threads, statement by statement:
\* the test of _Disposed, its assignment, and the gated body.
RaceTest(t) ==
    /\ result.some
    /\ pcNextFrame = "idle"
    /\ pc[t] = "idle"
    /\ pc' = [pc EXCEPT ![t] = IF ~_Disposed THEN "set" ELSE "done"]
    /\ disposeCalls' = disposeCalls + (IF ~_Disposed THEN 0 ELSE 1)
    /\ UNCHANGED << pluginVars, result, demuxVars, contextVars, frameVars, heap, log >>

RaceSet(t) ==
    /\ pc[t] = "set"
    /\ _Disposed' = TRUE
    /\ pc' = [pc EXCEPT ![t] = "release"]
    /\ UNCHANGED << pluginVars, result, demuxVars, _StreamContent, Content, _BufferSize,
                    _Packet, frameVars, disposeCalls, heap, log >>

RaceRelease(t) ==
    /\ pc[t] = "release"
    /\ LET n == ReleaseBody(_Packet, Native(heap, log))
       IN  /\ heap' = n.heap
           /\ log' = n.log
    /\ pc' = [pc EXCEPT ![t] = "done"]
    /\ disposeCalls' = disposeCalls + 1
    /\ UNCHANGED << pluginVars, result, demuxVars, contextVars, frameVars >>

NextRace ==
    \/ Load
    \/ DecodeCall
    \/ LoadContainerCall
    \/ SetIgnore
    \/ NextFrameEnter
    \/ NextFrameLoop
    \/ \E t \in Threads : RaceTest(t)
    \/ \E t \in Threads : RaceSet(t)
    \/ \E t \in Threads : RaceRelease(t)

SpecRace == Init /\ [][NextRace]_vars

\* ------------------------------------------------------------ properties
ReleaseCalls ==
    { "Finish", "delete stream", "av_free(io)", "delete[] _StreamContent",
      "av_free(_Buffer)", "av_free_packet", "delete _Packet" }

Last(s) == s[Len(s)]

Returned == pcNextFrame = "idle" /\ results # <<>>

\* a occurs in s, and before every occurrence of b.
Precedes(a, b, s) ==
    /\ IndexOf(a, s) > 0
    /\ IndexOf(b, s) > 0
    /\ IndexOf(a, s) < IndexOf(b, s)

Supported(s) == s.codec /\ s.opens /\ s.codec_type = "AUDIO"

\* The context has one content slot and the host has set Ignore on it
\* (which it does before any NextFrame call).
SoleIgnored == result.some /\ Len(Content) = 1 /\ Content[1].Ignore

\* C1: however many teardowns have run one after another on an opened
\* context, every release call (Finish, the frees of the stream handle, the
\* bridge, the stream-index map, the decode buffer and the packet) has been
\* made at most once, and the log holds the calls of one release body and
\* nothing more: the second and later teardowns added nothing.
C1_IdempotentDisposal ==
    (result.some /\ disposeCalls >= 1) =>
        /\ \A e \in ReleaseCalls : Count(e, log) <= 1
        /\ Len(log) = (IF _Packet # NULL THEN 7 ELSE 5)
        /\ _Disposed

C1_Witness ==
    /\ disposeCalls >= 2
    /\ Count("Finish", log) = 1
    /\ Count("delete[] _StreamContent", log) = 1
    /\ Count("av_free(_Buffer)", log) = 1
    /\ Count("delete _Packet", log) = 1

\* C2: when the explicit close and the finalizer race on one context, the
\* gated release body runs at most once: no release call is made twice.
C2_RacingDisposalOnce ==
    result.some => \A e \in ReleaseCalls : Count(e, log) <= 1

\* C3: an open call (Decode or _LoadContainer) that returned None has
\* called Finish on the supplied stream exactly once.
C3_FinishOnEveryFailure ==
    (result.call # "none" /\ ~result.some /\ ~result.threw) =>
        Count("Finish", log) = 1

\* C4: on an opened context Finish has been called exactly once as soon as
\* a teardown has run, however many NextFrame calls came before and however
\* many teardowns follow, and not at all before the first teardown.
C4_FinishExactlyOnce ==
    result.some => Count("Finish", log) = (IF disposeCalls >= 1 THEN 1 ELSE 0)

C4_Witness ==
    /\ result.some
    /\ Len(results) >= 1
    /\ disposeCalls >= 2
    /\ Count("Finish", log) = 1

\* C5: once a NextFrame call has returned false, no later step calls
\* av_read_frame and every later NextFrame call returns false.
C5_ExhaustedNoFurtherReads ==
    [][ (\E i \in 1..Len(results) : ~results[i]) =>
          /\ reads' = reads
          /\ Len(results') > Len(results) => ~Last(results') ]_vars

\* C6: after a teardown the demuxer has been closed, then the stream-index
\* map, the decode buffer and the held packet (if any) released, in that
\* order, and the bridge closed (Finish) after all of them; the demuxer and
\* the decoders it opened are no longer held.
C6_ReleaseOrder ==
    (result.some /\ disposeCalls >= 1) =>
        /\ Precedes("av_close_input_stream", "delete[] _StreamContent", log)
        /\ Precedes("delete[] _StreamContent", "av_free(_Buffer)", log)
        /\ _Packet # NULL => Precedes("av_free(_Buffer)", "delete _Packet", log)
        /\ _Packet # NULL => Precedes("delete _Packet", "Finish", log)
        /\ Precedes("av_free(_Buffer)", "Finish", log)
        /\ "demuxer" \notin heap

\* C7: when NextFrame has returned true, ContentIndex is an index into
\* Content: 0 <= ContentIndex < Len(Content).
C7_IndexValidity ==
    (Returned /\ Last(results)) => ContentIndex \in 0..(Len(Content) - 1)

C7_Witness ==
    /\ Returned
    /\ Last(results)
    /\ Len(Content) = 2
    /\ ContentIndex = 1
    /\ reads > Len(results)

\* C8: NextFrame has returned false only if av_read_frame has reported
\* exhaustion or an error; a call whose last packet failed to decode has
\* not returned on that packet: it is still in its loop, or has returned
\* false on the exhaustion reported after it; and on one audio stream whose
\* three packets reach the decoder, the third failing, three calls return
\* true, true, false.
C8_DecodeFailureNotFatal ==
    /\ (\E i \in 1..Len(results) : ~results[i]) => demuxEnd
    /\ (lastPacket = "fail" /\ pcNextFrame = "idle") =>
           (results # <<>> /\ ~Last(results) /\ demuxEnd /\ reads > delivered)
    /\ ( /\ Len(streams) = 1
         /\ Len(Content) = 1
         /\ delivered = 3
         /\ decodes = 3
         /\ fails = 1
         /\ lastPacket = "fail"
         /\ Len(results) = 3
         /\ pcNextFrame = "idle" ) => results = << TRUE, TRUE, FALSE >>

C8_Witness ==
    /\ Len(streams) = 1
    /\ delivered = 3
    /\ decodes = 3
    /\ fails = 1
    /\ lastPacket = "fail"
    /\ pcNextFrame = "idle"
    /\ results = << TRUE, TRUE, FALSE >>

\* C9 as stated: with Ignore set on the sole content slot before any
\* NextFrame call, every NextFrame call returns true with that content
\* index, the decoder is never called and the slot's Data stays None.
C9_IgnoredAlwaysTrue ==
    SoleIgnored =>
        /\ \A i \in 1..Len(results) : results[i]
        /\ Returned => ContentIndex = 0
        /\ decodes = 0
        /\ Content[1].Data = None

\* C9 as amended: with Ignore set on the sole content slot before any
\* NextFrame call, a NextFrame call returns true, with that content index,
\* for a packet of that slot's stream, and returns false only once
\* av_read_frame has reported exhaustion or an error; the decoder is never
\* called and the slot's Data stays None.  With no other stream in the
\* container every delivered packet yields one true.
C9_IgnoredContent ==
    SoleIgnored =>
        /\ \A i \in 1..Len(results) : ~results[i] => demuxEnd
        /\ (Returned /\ Last(results)) => (ContentIndex = 0 /\ lastPacket = "ignored")
        /\ Len(streams) = 1 => Count(TRUE, results) = delivered
        /\ decodes = 0
        /\ Content[1].Data = None

C9_Witness ==
    /\ SoleIgnored
    /\ Len(results) = 3
    /\ results[1]
    /\ results[2]
    /\ ~results[3]
    /\ ContentIndex = 0

\* C10: in a context none of whose streams is a supported one (a decoder
\* exists, it opened, and the kind is audio) every NextFrame call returns
\* false and the decoder is never called.
C10_NoAudioStream ==
    (result.some /\ \A t \in 1..Len(streams) : ~Supported(streams[t])) =>
        /\ \A i \in 1..Len(results) : ~results[i]
        /\ decodes = 0

C10_Witness ==
    /\ result.some
    /\ Len(streams) = 2
    /\ \A t \in 1..Len(streams) : ~Supported(streams[t])
    /\ delivered = 3
    /\ Len(results) = 2
    /\ \A i \in 1..Len(results) : ~results[i]
    /\ decodes = 0

\* The demuxed packet payloads that are live: those overwritten by a later
\* av_read_frame without av_free_packet, and the one the packet struct holds.
LivePackets == leaked + (IF _Packet = "data" /\ "_Packet" \in heap THEN 1 ELSE 0)

\* C11: at most one demuxed packet payload is live in any state: a packet
\* the loop discards (unmapped stream, failed decode) has been released
\* before the next one is read, so no payload is ever overwritten unreleased.
C11_OneLivePacket ==
    result.some => (LivePackets <= 1 /\ leaked = 0)

\* C12: an open call that returned None holds none of the resources it
\* acquired: the bridge and its stream handle, the demuxer and (in
\* _LoadContainer) the marshalled filename are all released, the demuxer is
\* closed before the bridge, and no context fields were built.
C12_NoLeakOnOpenFailure ==
    (result.call # "none" /\ ~result.some /\ ~result.threw) =>
        /\ heap = {}
        /\ IndexOf("av_close_input_stream", log) > 0 =>
               Precedes("av_close_input_stream", "Finish", log)
        /\ _StreamContent = <<>>
        /\ Content = <<>>

\* C13: when Initialize throws after the demuxer was opened, the open call
\* has still released what it had acquired (the bridge and its stream
\* handle, the demuxer, the opened decoders, the stream-index map) and has
\* called Finish on the stream once.
C13_NoPartialConstructionLeak ==
    result.threw =>
        /\ heap = {}
        /\ openDecoders = {}
        /\ Count("Finish", log) = 1

\* C14: every context Initialize produced records a buffer capacity of at
\* least AVCODEC_MAX_AUDIO_FRAME_SIZE, whatever its streams, and in every
\* later state (after NextFrame calls, Ignore changes and teardowns) the
\* capacity is still the one Initialize recorded.
C14_BufferFloor ==
    result.some =>
        /\ _BufferSize >= AVCODEC_MAX_AUDIO_FRAME_SIZE
        /\ _BufferSize = Initialize(streams)._BufferSize

C14_Witness ==
    /\ result.some
    /\ Len(streams) = 2
    /\ Len(Content) = 0
    /\ Len(results) >= 2
    /\ disposeCalls >= 1
    /\ _BufferSize >= AVCODEC_MAX_AUDIO_FRAME_SIZE

\* C15: when _LoadContainer has returned Some, the container of the pair is
\* a registered container, never nullptr.
C15_MatchedFormatReported ==
    (result.call = "_LoadContainer" /\ result.some) =>
        /\ result.container # "nullptr"
        /\ DictIndex(_Containers, result.container) > 0

\* The supported streams among the first t of strs.
SupportedBefore(strs, t) == Cardinality({u \in 1..t : Supported(strs[u])})

\* C16: in an opened context the stream-index map has one entry per native
\* stream; the entry of an unsupported stream is the sentinel, the entry of
\* a supported stream is the number of supported streams before it (so the
\* supported streams get 0, 1, 2, ... in native order, no two the same), it
\* is the position of that stream's descriptor in Content, and Content has
\* as many descriptors as there are supported streams.
C16_StreamIndexMap ==
    result.some =>
        /\ Len(_StreamContent) = Len(streams)
        /\ Len(Content) = SupportedBefore(streams, Len(streams))
        /\ \A t \in 1..Len(streams) :
              IF Supported(streams[t])
              THEN /\ _StreamContent[t] = SupportedBefore(streams, t - 1)
                   /\ _StreamContent[t] \in 0..(Len(Content) - 1)
                   /\ Content[_StreamContent[t] + 1].stream = t - 1
              ELSE _StreamContent[t] = Sentinel
        /\ \A t, u \in 1..Len(streams) :
              (Supported(streams[t]) /\ Supported(streams[u]) /\ t # u) =>
                  _StreamContent[t] # _StreamContent[u]

C16_Witness ==
    /\ result.some
    /\ Len(streams) = 2
    /\ ~Supported(streams[1])
    /\ Supported(streams[2])
    /\ _StreamContent = << Sentinel, 0 >>
    /\ Len(Content) = 1

\* A step of a NextFrame call: its prologue or one pass of its loop.
NextFrameStep == pcNextFrame = "read" \/ pcNextFrame' = "read"

\* The step is the return of true from NextFrame.
ReturnsTrue == Len(results') = Len(results) + 1 /\ Last(results')

\* C17: a step of NextFrame leaves the stream-index map, the buffer and its
\* capacity, and the number, kind, stream and Ignore flag of the content
\* descriptors as they were; it changes a descriptor's Data only in the step
\* that returns true, only for the descriptor whose index it returns, and
\* only if that descriptor is not ignored.
C17_NextFrameFrameCondition ==
    [][ NextFrameStep =>
          /\ _StreamContent' = _StreamContent
          /\ _BufferSize' = _BufferSize
          /\ ("_Buffer" \in heap') = ("_Buffer" \in heap)
          /\ Len(Content') = Len(Content)
          /\ \A i \in 1..Len(Content) :
                /\ Content'[i].kind = Content[i].kind
                /\ Content'[i].stream = Content[i].stream
                /\ Content'[i].Ignore = Content[i].Ignore
                /\ Content'[i].Data # Content[i].Data =>
                      /\ ReturnsTrue
                      /\ ContentIndex' = i - 1
                      /\ ~Content[i].Ignore ]_vars

C17_Witness ==
    /\ Len(Content) = 2
    /\ Content[1].Ignore
    /\ Content[1].Data = None
    /\ Content[2].Data # None
    /\ Returned
    /\ Last(results)
    /\ lastPacket = "ignored"
    /\ ContentIndex = 0

\* C18: when NextFrame has returned true with a decoded frame, the returned
\* slot is not ignored and its Data is the range of the shared buffer that
\* starts at offset 0 and is as long as what the decoder, bounded by the
\* capacity, produced: 0 <= length <= _BufferSize.
C18_DecodedRangeWithinBuffer ==
    (Returned /\ Last(results) /\ lastPacket = "frame") =>
        /\ ContentIndex \in 0..(Len(Content) - 1)
        /\ ~Content[ContentIndex + 1].Ignore
        /\ Content[ContentIndex + 1].kind = "Audio"
        /\ Content[ContentIndex + 1].Data.some
        /\ Content[ContentIndex + 1].Data.start = 0
        /\ Content[ContentIndex + 1].Data.end - Content[ContentIndex + 1].Data.start
               \in FrameSizes(_BufferSize)
        /\ Content[ContentIndex + 1].Data.end - Content[ContentIndex + 1].Data.start
               \in 0.._BufferSize

C18_Witness ==
    /\ Returned
    /\ Last(results)
    /\ lastPacket = "frame"
    /\ Len(Content) = 2
    /\ ContentIndex = 1
    /\ Content[2].Data = Some(0, _BufferSize)
    /\ _BufferSize = AVCODEC_MAX_AUDIO_FRAME_SIZE

\* C19: every Data reference that is set denotes a range of the one shared
\* buffer that starts at offset 0, so any two set references overlap; and no
\* step clears a reference once set: the reference an earlier call stored on
\* another slot stays, aliasing the storage a later decode overwrites.
C19_SharedBufferAliasing ==
    [][ /\ \A i \in 1..Len(Content') :
              Content'[i].Data.some =>
                  /\ Content'[i].Data.start = 0
                  /\ Content'[i].Data.end \in 0.._BufferSize'
        /\ \A i \in 1..Len(Content) :
              Content[i].Data.some =>
                  /\ i <= Len(Content')
                  /\ Content'[i].Data.some ]_vars

C19_Witness ==
    /\ Len(Content) = 2
    /\ Content[1].Data.some
    /\ Content[2].Data.some
    /\ Content[1].Data.start = Content[2].Data.start
    /\ Returned
    /\ Last(results)
    /\ lastPacket = "frame"
    /\ ContentIndex = 1
    /\ decodes - fails >= 2

\* C20: every NextFrame call that has started returns, whatever the packets
\* the demuxer delivers before it reports exhaustion (all of them may be
\* discarded); and every pass of the loop that gets a packet made one
\* av_read_frame call and consumed one packet.
C20_NextFrameTerminates ==
    /\ (pcNextFrame = "read") ~> (pcNextFrame = "idle")
    /\ [][ (pcNextFrame = "read" /\ delivered' # delivered) =>
              (delivered' = delivered + 1 /\ reads' = reads + 1) ]_vars

C20_Witness ==
    /\ pcNextFrame = "idle"
    /\ Len(results) = 1
    /\ ~results[1]
    /\ delivered = MaxPackets
    /\ reads = MaxPackets + 1
    /\ lastPacket \in {"skip", "fail"}
    /\ decodes = fails

====
